---- MODULE Spec2Model ----
(***************************************************************************)
(* Frostmist Pavilion calendar poster: the timezone conversion engine of   *)
(* src/frostmist-pavilion/app.js (getOffsetMinutes, convertTime,           *)
(* updateAllTimes, the timezone selector's handlers and the time-bearing   *)
(* nodes built by renderPoster / buildDayCol).                             *)
(*                                                                         *)
(* Strings whose characters the code inspects (time strings, prefixes,     *)
(* node text) are sequences of one-character strings; zone identifiers are *)
(* only compared and used as keys, and are TLA+ strings.  JavaScript       *)
(* numbers are records [type, n] so that NaN is a value.                   *)
(***************************************************************************)
EXTENDS Integers, Sequences, FiniteSets, TLC

VARIABLES
    tzOffsetCache,    \* _tzOffsetCache: own properties, zone id -> minutes
    formatCalls,      \* history: calls of formatToParts so far, per zone id
    hour24,           \* host: TRUE when Intl formats local midnight as hour "24"
    currentConfig,    \* currentConfig: [baseTimezone, timezones]
    currentTimezone,  \* currentTimezone
    nodes,            \* the [data-base-time] elements, in document order
    open,             \* the selector's 'open' class (dropdown shown)
    lastSelect,       \* history: the last selection [tz, threw, repeated]
    pc,               \* conversion harness: position in the call sequence
    input,            \* conversion harness: [timeStr, fromTz, toTz]
    r1,               \* conversion harness: result of convertTime(t, A, B)
    r2,               \* conversion harness: result of the call back, B to A
    resolved          \* conversion harness: result of the last getOffsetMinutes

vars == <<tzOffsetCache, formatCalls, hour24, currentConfig, currentTimezone, nodes, open,
          lastSelect, pc, input, r1, r2, resolved>>

uiVars == <<currentConfig, currentTimezone, nodes, open, lastSelect>>
harnessVars == <<pc, input, r1, r2, resolved>>

-----------------------------------------------------------------------------
(* JavaScript values and arithmetic                                        *)

JsNum(n) == [type |-> "number", n |-> n]
JsNaN == [type |-> "nan", n |-> 0]
JsFunction == [type |-> "function", n |-> 0]
JsUndefined == [type |-> "undefined", n |-> 0]

IsNum(v) == v.type = "number"

\* a % b of JavaScript for b > 0: the remainder takes the sign of the dividend.
JsRem(a, b) == IF a >= 0 THEN a % b ELSE -((-a) % b)

\* Math.floor(a / b) for integers a and b > 0.
MathFloorDiv(a, b) == a \div b

Digits == <<"0", "1", "2", "3", "4", "5", "6", "7", "8", "9">>

IsDigit(c) == \E i \in 1..10 : Digits[i] = c

DigitVal(c) == (CHOOSE i \in 1..10 : Digits[i] = c) - 1

\* Number(s) and parseInt(s, 10) on a nonempty string of decimal digits.
RECURSIVE ToNumber(_)
ToNumber(s) ==
    IF Len(s) = 0 THEN 0
    ELSE 10 * ToNumber(SubSeq(s, 1, Len(s) - 1)) + DigitVal(s[Len(s)])

\* String(n) for an integer n >= 0.
RECURSIVE NumToString(_)
NumToString(n) ==
    IF n < 10 THEN <<Digits[n + 1]>>
    ELSE NumToString(n \div 10) \o <<Digits[(n % 10) + 1]>>

\* String(v) for a number or NaN.
JsString(v) == IF IsNum(v) THEN NumToString(v.n) ELSE <<"N", "a", "N">>

\* s.padStart(2, '0')
RECURSIVE PadStart2(_)
PadStart2(s) == IF Len(s) >= 2 THEN s ELSE PadStart2(<<"0">> \o s)

\* s.split(':')
RECURSIVE SplitColon(_, _)
SplitColon(s, acc) ==
    IF Len(s) = 0 THEN <<acc>>
    ELSE IF Head(s) = ":" THEN <<acc>> \o SplitColon(Tail(s), <<>>)
    ELSE SplitColon(Tail(s), Append(acc, Head(s)))

\* Variant of the pattern that also takes a one-digit minute, \d{1,2}:\d{1,2}.
TimePatternLooseMinute(s) ==
    LET parts == SplitColon(s, <<>>)
    IN  /\ Len(parts) = 2
        /\ Len(parts[1]) \in 1..2 /\ Len(parts[2]) \in 1..2
        /\ \A i \in 1..Len(parts[1]) : IsDigit(parts[1][i])
        /\ \A i \in 1..Len(parts[2]) : IsDigit(parts[2][i])

\* /^\d{1,2}:\d{2}$/.test(s)
TimePattern(s) ==
    \/ /\ Len(s) = 4
       /\ IsDigit(s[1]) /\ s[2] = ":" /\ IsDigit(s[3]) /\ IsDigit(s[4])
    \/ /\ Len(s) = 5
       /\ IsDigit(s[1]) /\ IsDigit(s[2]) /\ s[3] = ":"
       /\ IsDigit(s[4]) /\ IsDigit(s[5])

-----------------------------------------------------------------------------
(* The host's time zone database and Intl.DateTimeFormat                   *)

\* UTC offset in minutes of each zone the host knows, at 2024-01-15T12:00Z.
TzDatabase ==
    [z \in {"UTC", "Asia/Taipei", "America/New_York", "Asia/Kolkata",
            "Etc/GMT+12", "Pacific/Tarawa", "Pacific/Auckland",
            "Pacific/Kiritimati"} |->
        CASE z = "UTC" -> 0
          [] z = "Asia/Taipei" -> 480
          [] z = "America/New_York" -> -300
          [] z = "Asia/Kolkata" -> 330
          [] z = "Etc/GMT+12" -> -720
          [] z = "Pacific/Tarawa" -> 720
          [] z = "Pacific/Auckland" -> 780
          [] z = "Pacific/Kiritimati" -> 840]

ValidZones == DOMAIN TzDatabase

\* Property names every plain object inherits from Object.prototype.
ObjectPrototypeKeys == {"constructor"}

\* Identifiers that are no zone of the host.
InvalidZones == {"Mars/Phobos"} \cup ObjectPrototypeKeys

ZoneIds == ValidZones \cup InvalidZones

\* new Date('2024-01-15T12:00:00Z'): its UTC minute of day.
RefUtcMinutes == 12 * 60

\* formatToParts(ref) with hour and minute '2-digit', hour12 false: the local
\* hour and minute of the reference instant in zone tz, as strings.
formatToParts(tz, quirk) ==
    LET local == (RefUtcMinutes + TzDatabase[tz]) % 1440
        hh == local \div 60
    IN  [hour   |-> IF hh = 0 /\ quirk THEN <<"2", "4">>
                    ELSE PadStart2(NumToString(hh)),
         minute |-> PadStart2(NumToString(local % 60))]

-----------------------------------------------------------------------------
(* Time conversion                                                         *)

\* Variant: a cached 0 is read as a missing entry.
CacheReadFalsy(cache, tz) ==
    IF tz \in DOMAIN cache /\ cache[tz] # 0 THEN JsNum(cache[tz])
    ELSE IF tz \in ObjectPrototypeKeys THEN JsFunction
    ELSE JsUndefined

\* _tzOffsetCache[tz]: an own property, else what Object.prototype gives.
CacheRead(cache, tz) ==
    IF tz \in DOMAIN cache THEN JsNum(cache[tz])
    ELSE IF tz \in ObjectPrototypeKeys THEN JsFunction
    ELSE JsUndefined

\* _tzOffsetCache[tz] = v
CacheWrite(cache, tz, v) ==
    [z \in (DOMAIN cache) \cup {tz} |-> IF z = tz THEN v ELSE cache[z]]

\* Variant that keeps an hour of 24.
NormalizeHourKept(h) == h

\* if (h === 24) h = 0
NormalizeHour(h) == IF h = 24 THEN 0 ELSE h

\* getOffsetMinutes(tz) run on cache: [threw, value, cache, formatted].
\* threw is TRUE when the constructor Intl.DateTimeFormat rejects tz with a
\* RangeError, before formatToParts is reached; formatted lists the zones
\* formatToParts was called for.
getOffsetMinutes(tz, cache, quirk) ==
    IF CacheRead(cache, tz).type # "undefined"
    THEN [threw |-> FALSE, value |-> CacheRead(cache, tz), cache |-> cache,
          formatted |-> <<>>]
    ELSE IF tz \notin ValidZones
    THEN [threw |-> TRUE, value |-> JsUndefined, cache |-> cache,
          formatted |-> <<>>]
    ELSE LET parts == formatToParts(tz, quirk)
             h == NormalizeHour(ToNumber(parts.hour))
             m == ToNumber(parts.minute)
             v == 12 * 60 - (h * 60 + m)
         IN  [threw |-> FALSE, value |-> JsNum(v),
              cache |-> CacheWrite(cache, tz, v), formatted |-> <<tz>>]

\* Variant with the two offsets taken with the opposite signs.
RawMinutesSignSwapped(h, m, from, to) ==
    IF IsNum(from) /\ IsNum(to) THEN JsNum(h * 60 + m - from.n + to.n)
    ELSE JsNaN

\* h * 60 + m + from - to: a number when both offsets are numbers; an offset
\* that is an inherited function makes the sum a string and the difference NaN.
RawMinutes(h, m, from, to) ==
    IF IsNum(from) /\ IsNum(to) THEN JsNum(h * 60 + m + from.n - to.n)
    ELSE JsNaN

\* Variant that rounds the quotient toward zero (Math.trunc).
DayOffsetTruncated(raw) ==
    IF IsNum(raw)
    THEN JsNum(IF raw.n >= 0 THEN raw.n \div 1440 ELSE -((-raw.n) \div 1440))
    ELSE JsNaN

\* Math.floor(raw / 1440)
DayOffsetOf(raw) ==
    IF IsNum(raw) THEN JsNum(MathFloorDiv(raw.n, 1440)) ELSE JsNaN

\* ((raw % 1440) + 1440) % 1440
Normalized(raw) ==
    IF IsNum(raw) THEN JsNum(JsRem(JsRem(raw.n, 1440) + 1440, 1440)) ELSE JsNaN

\* Variant without padStart.
FormatDisplayUnpadded(normalized) ==
    IF IsNum(normalized)
    THEN JsString(JsNum(MathFloorDiv(normalized.n, 60)))
         \o <<":">> \o JsString(JsNum(JsRem(normalized.n, 60)))
    ELSE JsString(JsNaN) \o <<":">> \o JsString(JsNaN)

\* `${String(Math.floor(normalized / 60)).padStart(2,'0')}:${String(normalized % 60).padStart(2,'0')}`
FormatDisplay(normalized) ==
    IF IsNum(normalized)
    THEN PadStart2(JsString(JsNum(MathFloorDiv(normalized.n, 60))))
         \o <<":">> \o PadStart2(JsString(JsNum(JsRem(normalized.n, 60))))
    ELSE PadStart2(JsString(JsNaN)) \o <<":">> \o PadStart2(JsString(JsNaN))

\* Variant of the early return without the same-zone test.
PassesThroughPatternOnly(timeStr, fromTz, toTz) == ~TimePattern(timeStr)

\* The early return of convertTime.
PassesThrough(timeStr, fromTz, toTz) == fromTz = toTz \/ ~TimePattern(timeStr)

\* Variant that resolves the offset of toTz before that of fromTz.
convertTimeDestinationFirst(timeStr, fromTz, toTz, cache, quirk) ==
    IF PassesThrough(timeStr, fromTz, toTz)
    THEN [threw |-> FALSE, display |-> timeStr, dayOffset |-> JsNum(0),
          cache |-> cache, formatted |-> <<>>]
    ELSE LET hm == SplitColon(timeStr, <<>>)
             h == ToNumber(hm[1])
             m == ToNumber(hm[2])
             to == getOffsetMinutes(toTz, cache, quirk)
             from == getOffsetMinutes(fromTz, to.cache, quirk)
             raw == RawMinutes(h, m, from.value, to.value)
         IN  IF to.threw
             THEN [threw |-> TRUE, display |-> <<>>, dayOffset |-> JsUndefined,
                   cache |-> to.cache, formatted |-> to.formatted]
             ELSE IF from.threw
             THEN [threw |-> TRUE, display |-> <<>>, dayOffset |-> JsUndefined,
                   cache |-> from.cache,
                   formatted |-> to.formatted \o from.formatted]
             ELSE [threw |-> FALSE, display |-> FormatDisplay(Normalized(raw)),
                   dayOffset |-> DayOffsetOf(raw), cache |-> from.cache,
                   formatted |-> to.formatted \o from.formatted]

\* convertTime(timeStr, fromTz, toTz) run on cache:
\* [threw, display, dayOffset, cache, formatted].  The offset of fromTz is
\* resolved first; an error of either resolution leaves convertTime at once.
convertTime(timeStr, fromTz, toTz, cache, quirk) ==
    IF PassesThrough(timeStr, fromTz, toTz)
    THEN [threw |-> FALSE, display |-> timeStr, dayOffset |-> JsNum(0),
          cache |-> cache, formatted |-> <<>>]
    ELSE LET hm == SplitColon(timeStr, <<>>)
             h == ToNumber(hm[1])
             m == ToNumber(hm[2])
             from == getOffsetMinutes(fromTz, cache, quirk)
             to == getOffsetMinutes(toTz, from.cache, quirk)
             raw == RawMinutes(h, m, from.value, to.value)
         IN  IF from.threw
             THEN [threw |-> TRUE, display |-> <<>>, dayOffset |-> JsUndefined,
                   cache |-> from.cache, formatted |-> from.formatted]
             ELSE IF to.threw
             THEN [threw |-> TRUE, display |-> <<>>, dayOffset |-> JsUndefined,
                   cache |-> to.cache,
                   formatted |-> from.formatted \o to.formatted]
             ELSE [threw |-> FALSE, display |-> FormatDisplay(Normalized(raw)),
                   dayOffset |-> DayOffsetOf(raw), cache |-> to.cache,
                   formatted |-> from.formatted \o to.formatted]

-----------------------------------------------------------------------------
(* Propagation to the time-bearing nodes                                   *)

\* The character U+00A0 that buildDayCol puts between a note and its time.
NBSP == "_"

TextNode(s) == [tag |-> "#text", text |-> s]
BadgeSpan(label) == [tag |-> "span.day-offset", text |-> label]

\* el.textContent = s on a fresh element: one text node, none for ''.
SetTextContent(s) == IF Len(s) = 0 THEN <<>> ELSE <<TextNode(s)>>

\* The daily-event banner's .daily-time element (renderPoster).
DailyTimeNode(time) ==
    [baseTime |-> time, hasPrefix |-> FALSE, notePrefix |-> <<>>,
     children |-> SetTextContent(time)]

\* The .event-time element of an event card (buildDayCol).
EventTimeNode(ev) ==
    [baseTime |-> ev.time, hasPrefix |-> FALSE, notePrefix |-> <<>>,
     children |-> SetTextContent(ev.time)]

\* Variant whose first text joins the note and the time without the space.
EventNoteNodeUnspaced(ev) ==
    [baseTime |-> ev.noteTime, hasPrefix |-> TRUE,
     notePrefix |-> ev.note \o <<NBSP>>,
     children |-> SetTextContent(ev.note \o ev.noteTime)]

\* The .event-note element of an event with a note and a noteTime.
EventNoteNode(ev) ==
    [baseTime |-> ev.noteTime, hasPrefix |-> TRUE,
     notePrefix |-> ev.note \o <<NBSP>>,
     children |-> SetTextContent(ev.note \o <<NBSP>> \o ev.noteTime)]

\* The time-bearing elements of one event card: an absent or empty note or
\* noteTime is falsy and gives no second element.
EventNodes(ev) ==
    <<EventTimeNode(ev)>>
    \o (IF Len(ev.note) > 0 /\ Len(ev.noteTime) > 0
        THEN <<EventNoteNode(ev)>> ELSE <<>>)

RECURSIVE EventsNodes(_)
EventsNodes(evs) ==
    IF Len(evs) = 0 THEN <<>>
    ELSE EventNodes(Head(evs)) \o EventsNodes(Tail(evs))

\* document.querySelectorAll('[data-base-time]') after renderPoster(cfg).
RenderedNodes(cfg) == <<DailyTimeNode(cfg.dailyTime)>> \o EventsNodes(cfg.events)

\* cfg.baseTimezone || 'Asia/Taipei' (an absent base zone is the empty string)
BaseZone(cfg) ==
    IF cfg.baseTimezone = "" THEN "Asia/Taipei" ELSE cfg.baseTimezone

\* Variant that ignores data-note-prefix.
PrefixOfNone(el) == <<>>

\* el.dataset.notePrefix || ''
PrefixOf(el) == IF el.hasPrefix THEN el.notePrefix ELSE <<>>

\* while (el.firstChild) el.removeChild(el.firstChild)
ClearChildren(children) == <<>>

\* dayOffset !== 0
NotZero(v) == ~(IsNum(v) /\ v.n = 0)

\* dayOffset > 0 ? '+1' : '-1'
BadgeLabel(v) == IF IsNum(v) /\ v.n > 0 THEN "+1" ELSE "-1"

\* The body of updateAllTimes' forEach for one element, after convertTime.
RewriteNode(el, display, dayOffset) ==
    LET withText == Append(ClearChildren(el.children),
                           TextNode(PrefixOf(el) \o display))
    IN  [el EXCEPT !.children =
            IF NotZero(dayOffset)
            THEN Append(withText, BadgeSpan(BadgeLabel(dayOffset)))
            ELSE withText]

\* Variant that converts the text on display instead of the base time.
RECURSIVE ShownText(_)
ShownText(children) ==
    IF Len(children) = 0 THEN <<>>
    ELSE (IF Head(children).tag = "#text" THEN Head(children).text ELSE <<>>)
         \o ShownText(Tail(children))

SourceTimeDisplayed(el) == ShownText(el.children)

\* The string updateAllTimes converts for el: el.dataset.baseTime.
SourceTime(el) == el.baseTime

\* updateAllTimes from element i on: [threw, nodes, cache, formatted].  An
\* error of convertTime leaves the forEach, with the elements from i on
\* untouched.  formatted lists the formatToParts calls made before i.
RECURSIVE UpdateFrom(_, _, _, _, _, _, _)
UpdateFrom(i, ns, fromTz, toTz, cache, quirk, formatted) ==
    IF i > Len(ns)
    THEN [threw |-> FALSE, nodes |-> ns, cache |-> cache,
          formatted |-> formatted]
    ELSE LET r == convertTime(SourceTime(ns[i]), fromTz, toTz, cache, quirk)
         IN  IF r.threw
             THEN [threw |-> TRUE, nodes |-> ns, cache |-> r.cache,
                   formatted |-> formatted \o r.formatted]
             ELSE UpdateFrom(i + 1,
                             [ns EXCEPT ![i] = RewriteNode(ns[i], r.display,
                                                           r.dayOffset)],
                             fromTz, toTz, r.cache, quirk,
                             formatted \o r.formatted)

updateAllTimes(ns, cfg, toTz, cache, quirk) ==
    UpdateFrom(1, ns, BaseZone(cfg), toTz, cache, quirk, <<>>)

\* What a reader sees of an element: its text and its badges.
RECURSIVE TextOf(_)
TextOf(children) ==
    IF Len(children) = 0 THEN <<>>
    ELSE (IF Head(children).tag = "#text" THEN Head(children).text ELSE <<>>)
         \o TextOf(Tail(children))

RECURSIVE BadgesOf(_)
BadgesOf(children) ==
    IF Len(children) = 0 THEN <<>>
    ELSE (IF Head(children).tag = "#text" THEN <<>> ELSE <<Head(children).text>>)
         \o BadgesOf(Tail(children))

Content(el) == [text |-> TextOf(el.children), badges |-> BadgesOf(el.children)]

-----------------------------------------------------------------------------
(* The poster: state after renderPoster(cfg), then the selector's events   *)

MaxEvents == 1

\* dailyEvent.time: an "HH:MM" string or a placeholder.
DailyTimes == {<<"0", "9", ":", "0", "0">>, <<"T", "B", "D">>}

\* An event of a day: time, and optionally a note with a noteTime.
ConfigEvents ==
    [time : {<<"9", ":", "0", "0">>, <<"T", "B", "D">>},
     note : {<<>>, <<"n">>},
     noteTime : {<<>>, <<"9", "9", ":", "9", "9">>}]

\* cfg.timezones: the identifiers the selector offers.
OfferedZones ==
    <<"Asia/Taipei", "America/New_York", "Pacific/Auckland", "Mars/Phobos",
      "constructor">>

Configs ==
    [baseTimezone : {"", "America/New_York", "Mars/Phobos"},
     timezones : {OfferedZones},
     dailyTime : DailyTimes,
     events : UNION {[1..n -> ConfigEvents] : n \in 0..MaxEvents}]

NoSelect == [tz |-> "", threw |-> FALSE, repeated |-> FALSE]
NoInput == [timeStr |-> <<>>, fromTz |-> "", toTz |-> ""]
NoResult ==
    [called |-> FALSE, threw |-> FALSE, display |-> <<>>,
     dayOffset |-> JsUndefined]
NoResolve == [tz |-> "", calls |-> 0, threw |-> FALSE, value |-> JsUndefined]
EmptyCache == [z \in {} |-> 0]

\* No call of formatToParts yet.
NoFormatCalls == [z \in ZoneIds |-> 0]

\* The counts after the calls listed in formatted.
RECURSIVE Counted(_, _)
Counted(counts, formatted) ==
    IF Len(formatted) = 0 THEN counts
    ELSE Counted([counts EXCEPT ![Head(formatted)] = @ + 1], Tail(formatted))

HarnessIdle ==
    /\ pc = "idle"
    /\ input = NoInput
    /\ r1 = NoResult
    /\ r2 = NoResult
    /\ resolved = NoResolve

\* renderPoster(cfg) with a nonempty cfg.timezones: buildTimezoneSelector
\* sets currentTimezone, the elements show their raw times.
Init ==
    /\ tzOffsetCache = EmptyCache
    /\ formatCalls = NoFormatCalls
    /\ hour24 \in BOOLEAN
    /\ currentConfig \in Configs
    /\ currentTimezone = BaseZone(currentConfig)
    /\ nodes = RenderedNodes(currentConfig)
    /\ open = FALSE
    /\ lastSelect = NoSelect
    /\ HarnessIdle

\* Click on option i of the dropdown.
SelectZone(i) ==
    LET tz == currentConfig.timezones[i]
        u == updateAllTimes(nodes, currentConfig, tz, tzOffsetCache, hour24)
    IN  /\ open' = FALSE
        /\ currentTimezone' = tz
        /\ nodes' = u.nodes
        /\ tzOffsetCache' = u.cache
        /\ formatCalls' = Counted(formatCalls, u.formatted)
        /\ lastSelect' = [tz |-> tz, threw |-> u.threw,
                          repeated |-> lastSelect.tz = tz]
        /\ UNCHANGED <<hour24, currentConfig, harnessVars>>

\* Variant of the button's handler that also puts the poster back to its
\* base zone.
ToggleDropdownResets ==
    /\ open' = ~open
    /\ currentTimezone' = BaseZone(currentConfig)
    /\ nodes' = RenderedNodes(currentConfig)
    /\ UNCHANGED <<tzOffsetCache, formatCalls, hour24, currentConfig,
                   lastSelect, harnessVars>>

\* Click on the selector's button.
ToggleDropdown ==
    /\ open' = ~open
    /\ UNCHANGED <<tzOffsetCache, formatCalls, hour24, currentConfig,
                   currentTimezone, nodes, lastSelect, harnessVars>>

\* Click anywhere else in the document.
OutsideClick ==
    /\ open
    /\ open' = FALSE
    /\ UNCHANGED <<tzOffsetCache, formatCalls, hour24, currentConfig,
                   currentTimezone, nodes, lastSelect, harnessVars>>

\* Escape pressed inside the selector.
EscapeKey ==
    /\ open
    /\ open' = FALSE
    /\ UNCHANGED <<tzOffsetCache, formatCalls, hour24, currentConfig,
                   currentTimezone, nodes, lastSelect, harnessVars>>

Next ==
    \/ \E i \in 1..Len(currentConfig.timezones) : SelectZone(i)
    \/ ToggleDropdown
    \/ OutsideClick
    \/ EscapeKey

Spec == Init /\ [][Next]_vars

-----------------------------------------------------------------------------
(* The converter on its own: calls of getOffsetMinutes and convertTime     *)

MaxResolves == 2

HourTexts ==
    {<<"0">>, <<"9">>, <<"0", "9">>, <<"1", "2">>, <<"2", "3">>,
     <<"2", "4">>, <<"9", "9">>}

MinuteTexts ==
    {<<"0", "0">>, <<"3", "0">>, <<"5", "9">>, <<"6", "0">>, <<"9", "9">>}

\* Strings the time pattern accepts.
TimeTexts == {h \o <<":">> \o m : h \in HourTexts, m \in MinuteTexts}

\* Strings it rejects: a placeholder, the empty string, one-digit minutes,
\* three-digit fields, missing parts, other characters, padding.
OtherTexts ==
    {<<"T", "B", "D">>, <<>>, <<"9", ":", "5">>, <<"1", "2", ":", "5">>,
     <<"1", "2", "3", ":", "0", "0">>, <<"1", "2", ":", "0", "0", "0">>,
     <<"1", "2", "0", "0">>, <<":", "0", "0">>, <<"9", ":", "0", "a">>,
     <<"0", "9", ":", "0", "0", " ">>, <<"-", "9", ":", "0", "0">>,
     <<"N", "a", "N", ":", "N", "a", "N">>}

InputTexts == TimeTexts \cup OtherTexts

ResultOf(r) ==
    [called |-> TRUE, threw |-> r.threw, display |-> r.display,
     dayOffset |-> r.dayOffset]

ConvInit ==
    /\ tzOffsetCache = EmptyCache
    /\ formatCalls = NoFormatCalls
    /\ hour24 \in BOOLEAN
    /\ input \in [timeStr : InputTexts, fromTz : ZoneIds, toTz : ZoneIds]
    /\ pc = "start"
    /\ r1 = NoResult
    /\ r2 = NoResult
    /\ resolved = NoResolve
    /\ currentConfig = [baseTimezone |-> "", timezones |-> <<>>,
                        dailyTime |-> <<>>, events |-> <<>>]
    /\ currentTimezone = ""
    /\ nodes = <<>>
    /\ open = FALSE
    /\ lastSelect = NoSelect

\* getOffsetMinutes(z) for one of the two zones, before the conversion.
ResolveOffset(z) ==
    LET g == getOffsetMinutes(z, tzOffsetCache, hour24)
    IN  /\ pc = "start"
        /\ resolved.calls < MaxResolves
        /\ resolved' = [tz |-> z, calls |-> resolved.calls + 1,
                        threw |-> g.threw, value |-> g.value]
        /\ tzOffsetCache' = g.cache
        /\ formatCalls' = Counted(formatCalls, g.formatted)
        /\ UNCHANGED <<hour24, uiVars, pc, input, r1, r2>>

\* r1 = convertTime(t, A, B)
Convert ==
    LET r == convertTime(input.timeStr, input.fromTz, input.toTz,
                         tzOffsetCache, hour24)
    IN  /\ pc = "start"
        /\ pc' = "converted"
        /\ r1' = ResultOf(r)
        /\ tzOffsetCache' = r.cache
        /\ formatCalls' = Counted(formatCalls, r.formatted)
        /\ UNCHANGED <<hour24, uiVars, input, r2, resolved>>

\* r2 = convertTime(r1.display, B, A)
ConvertBack ==
    LET r == convertTime(r1.display, input.toTz, input.fromTz,
                         tzOffsetCache, hour24)
    IN  /\ pc = "converted"
        /\ ~r1.threw
        /\ pc' = "back"
        /\ r2' = ResultOf(r)
        /\ tzOffsetCache' = r.cache
        /\ formatCalls' = Counted(formatCalls, r.formatted)
        /\ UNCHANGED <<hour24, uiVars, input, r1, resolved>>

ConvNext ==
    \/ \E z \in {input.fromTz, input.toTz} : ResolveOffset(z)
    \/ Convert
    \/ ConvertBack

ConvSpec == ConvInit /\ [][ConvNext]_vars

-----------------------------------------------------------------------------
(* Properties of the converter (checked under ConvSpec)                    *)

\* The number a one- or two-digit field denotes.
FieldValue(f) ==
    IF Len(f) = 1 THEN DigitVal(f[1]) ELSE 10 * DigitVal(f[1]) + DigitVal(f[2])

\* Hour and minute a string of the shape H:MM or HH:MM denotes.
HourOf(s) == FieldValue(SubSeq(s, 1, Len(s) - 3))
MinuteOf(s) == FieldValue(SubSeq(s, Len(s) - 1, Len(s)))

\* Two digits, a colon, two digits.
TwoDigitClock(d) ==
    /\ Len(d) = 5
    /\ IsDigit(d[1]) /\ IsDigit(d[2]) /\ d[3] = ":"
    /\ IsDigit(d[4]) /\ IsDigit(d[5])

\* A wall-clock time: hour at most 23, minute at most 59.
WallClock(s) == HourOf(s) <= 23 /\ MinuteOf(s) <= 59

\* Zone identifiers for which getOffsetMinutes returns a number.
HasOffset(z) ==
    LET g == getOffsetMinutes(z, EmptyCache, hour24)
    IN  ~g.threw /\ IsNum(g.value)

\* offset(z): that number.
OffsetOf(z) == getOffsetMinutes(z, EmptyCache, hour24).value.n

\* raw of the call the harness made.
InputRaw ==
    HourOf(input.timeStr) * 60 + MinuteOf(input.timeStr)
    + OffsetOf(input.fromTz) - OffsetOf(input.toTz)

Converting ==
    /\ pc # "start"
    /\ TimePattern(input.timeStr)
    /\ input.fromTz # input.toTz
    /\ HasOffset(input.fromTz)
    /\ HasOffset(input.toTz)

\* C1: for a time string of the pattern and two distinct zone identifiers
\* with offsets, convertTime returns dayOffset = floor(raw / 1440) and a
\* display HH:MM with 60*HH + MM = raw mod 1440 in [0, 1440), so that
\* 1440*dayOffset + 60*HH + MM = raw also for negative raw; from offset -480
\* to offset +300, "09:00" gives "20:00" a day earlier and "23:30" gives
\* "10:30" on the same day.
C1_ConversionFormula ==
    Converting =>
        /\ ~r1.threw
        /\ r1.dayOffset = JsNum(InputRaw \div 1440)
        /\ TwoDigitClock(r1.display)
        /\ 60 * HourOf(r1.display) + MinuteOf(r1.display) = InputRaw % 1440
        /\ 1440 * r1.dayOffset.n + 60 * HourOf(r1.display)
             + MinuteOf(r1.display) = InputRaw
        /\ (OffsetOf(input.fromTz) = -480 /\ OffsetOf(input.toTz) = 300) =>
             /\ input.timeStr = <<"0", "9", ":", "0", "0">> =>
                  /\ r1.display = <<"2", "0", ":", "0", "0">>
                  /\ r1.dayOffset = JsNum(-1)
             /\ input.timeStr = <<"2", "3", ":", "3", "0">> =>
                  /\ r1.display = <<"1", "0", ":", "3", "0">>
                  /\ r1.dayOffset = JsNum(0)

\* C1 witness: "09:00" converted from offset -480 to offset +300, raw < 0.
C1_Witness ==
    /\ Converting
    /\ input.timeStr = <<"0", "9", ":", "0", "0">>
    /\ OffsetOf(input.fromTz) = -480
    /\ OffsetOf(input.toTz) = 300
    /\ InputRaw < 0
    /\ r1.display = <<"2", "0", ":", "0", "0">>

\* The calendar day of the converted instant in the destination zone, counted
\* from the source day, by the zones' true UTC offsets.
TrueDayDifference ==
    (HourOf(input.timeStr) * 60 + MinuteOf(input.timeStr)
     - TzDatabase[input.fromTz] + TzDatabase[input.toTz]) \div 1440

\* C2: for distinct zones A, B with UTC offsets from -12:00 to +14:00 and a
\* wall-clock time t, the dayOffset of convertTime(t, A, B) is the number of
\* calendar days from A's day to B's day at that instant (zero exactly when
\* they are the same day, the sign giving the direction).
C2_DayOffsetIsCalendarDays ==
    (/\ pc # "start"
     /\ TimePattern(input.timeStr)
     /\ WallClock(input.timeStr)
     /\ input.fromTz # input.toTz
     /\ input.fromTz \in ValidZones
     /\ input.toTz \in ValidZones) =>
        /\ ~r1.threw
        /\ r1.dayOffset = JsNum(TrueDayDifference)

\* Local minute of day of the reference instant in zone z, hour 24 read as 0.
RefLocalMinutes(z) ==
    LET parts == formatToParts(z, hour24)
        hh == FieldValue(parts.hour)
    IN  (IF hh = 24 THEN 0 ELSE hh) * 60 + FieldValue(parts.minute)

\* C3: getOffsetMinutes returns 720 minus the local minute of day of the
\* reference instant, and that is minus the zone's UTC offset (positive
\* behind UTC, negative ahead of UTC) for every zone from UTC-12:00 to
\* UTC+14:00.
C3_OffsetIsMinusUtcOffset ==
    (resolved.calls > 0 /\ resolved.tz \in ValidZones) =>
        /\ ~resolved.threw
        /\ resolved.value = JsNum(720 - RefLocalMinutes(resolved.tz))
        /\ resolved.value = JsNum(-TzDatabase[resolved.tz])
        /\ TzDatabase[resolved.tz] < 0 => resolved.value.n > 0
        /\ TzDatabase[resolved.tz] > 0 => resolved.value.n < 0

\* Both conversions of the round trip returned.
RoundTripDone == pc = "back" /\ r1.called /\ r2.called /\ ~r1.threw /\ ~r2.threw

\* r2.display denotes the hour and minute of t, and the dayOffsets cancel.
RoundTripRecovers ==
    /\ TimePattern(r2.display)
    /\ HourOf(r2.display) = HourOf(input.timeStr)
    /\ MinuteOf(r2.display) = MinuteOf(input.timeStr)
    /\ IsNum(r1.dayOffset) /\ IsNum(r2.dayOffset)
    /\ r1.dayOffset.n + r2.dayOffset.n = 0

\* C4 as stated: the round trip recovers every time string of the pattern.
C4_RoundTripAnyPattern ==
    (/\ pc = "back"
     /\ TimePattern(input.timeStr)
     /\ input.fromTz \in ValidZones
     /\ input.toTz \in ValidZones) =>
        RoundTripDone /\ RoundTripRecovers

\* C4 amended: for a time string t of the pattern with hour <= 23 and
\* minute <= 59 and zones A, B with offsets (or A = B), converting t from A
\* to B and the display back from B to A gives a display that denotes the
\* hour and minute of t, and the two dayOffsets sum to 0.
C4_RoundTripWallClock ==
    (/\ pc = "back"
     /\ TimePattern(input.timeStr)
     /\ WallClock(input.timeStr)
     /\ \/ input.fromTz = input.toTz
        \/ HasOffset(input.fromTz) /\ HasOffset(input.toTz)) =>
        RoundTripDone /\ RoundTripRecovers

\* C4 witness: a round trip that crosses midnight on the way out and comes
\* back, from a one-digit hour.
C4_Witness ==
    /\ RoundTripDone
    /\ Converting
    /\ WallClock(input.timeStr)
    /\ Len(input.timeStr) = 4
    /\ r1.dayOffset = JsNum(-1)
    /\ r2.dayOffset = JsNum(1)

\* C5: for every string t and every zone identifier z, convertTime(t, z, z)
\* returns display equal to t character for character and dayOffset 0.
C5_SameZoneIdentity ==
    (pc # "start" /\ input.fromTz = input.toTz) =>
        /\ r1.called /\ ~r1.threw
        /\ r1.display = input.timeStr
        /\ r1.dayOffset = JsNum(0)

\* C5 witness: a time with a one-digit hour converted within one zone.
C5_Witness ==
    /\ pc = "converted" /\ r1.called
    /\ input.fromTz = input.toTz
    /\ input.timeStr = <<"9", ":", "0", "0">>
    /\ r1.display = <<"9", ":", "0", "0">>

\* C6: a string that does not match the pattern is returned unchanged with
\* dayOffset 0 and without an error, whatever the two zone identifiers.
C6_PassThrough ==
    (pc # "start" /\ input.timeStr \in OtherTexts) =>
        /\ r1.called /\ ~r1.threw
        /\ r1.display = input.timeStr
        /\ r1.dayOffset = JsNum(0)

\* C6 witness: a time with a one-digit minute between two different zones,
\* one of them no zone at all.
C6_Witness ==
    /\ pc = "converted" /\ r1.called
    /\ input.timeStr = <<"9", ":", "5">>
    /\ input.fromTz = "Asia/Taipei"
    /\ input.toTz = "Mars/Phobos"
    /\ r1.display = <<"9", ":", "5">>

\* C7 as stated: for every time string of the pattern and every pair of
\* zones the display has a two-digit hour and a two-digit minute.
C7_TwoDigitAnyPair ==
    (/\ pc # "start"
     /\ TimePattern(input.timeStr)
     /\ input.fromTz \in ValidZones
     /\ input.toTz \in ValidZones) =>
        ~r1.threw /\ TwoDigitClock(r1.display)

\* C7 amended: for every time string of the pattern and every pair of
\* distinct zone identifiers with offsets, the display has a two-digit
\* zero-padded hour and a two-digit zero-padded minute joined by a colon.
C7_TwoDigitDistinct ==
    Converting => ~r1.threw /\ TwoDigitClock(r1.display)

\* C7 witness: a one-digit hour in, a zero-padded hour out.
C7_Witness ==
    /\ Converting
    /\ Len(input.timeStr) = 4
    /\ TwoDigitClock(r1.display)
    /\ r1.display[1] = "0"

-----------------------------------------------------------------------------
(* Properties of the propagation (checked under Spec)                      *)

\* convertTime of element i's base time from the base zone to the selected
\* zone, as a call made now.
ConversionOf(i) ==
    convertTime(nodes[i].baseTime, BaseZone(currentConfig), currentTimezone,
                tzOffsetCache, hour24)

\* The last selection's propagation pass ran to its end.
PassCompleted == lastSelect.tz # "" /\ ~lastSelect.threw

\* C8: after a propagation pass completes, the text of every time-bearing
\* node is its stored prefix (empty when it has none) followed by the display
\* of convertTime(base time, base zone, selected zone), compound note and
\* note-time nodes included.
C8_TextIsPrefixPlusDisplay ==
    PassCompleted =>
        \A i \in 1..Len(nodes) :
            /\ ~ConversionOf(i).threw
            /\ TextOf(nodes[i].children)
                 = (IF nodes[i].hasPrefix THEN nodes[i].notePrefix ELSE <<>>)
                   \o ConversionOf(i).display

\* C8 witness: a completed pass to another zone rewrote a compound node and
\* a node without prefix.
C8_Witness ==
    /\ PassCompleted
    /\ currentTimezone # BaseZone(currentConfig)
    /\ \E i \in 1..Len(nodes) :
          /\ nodes[i].hasPrefix
          /\ ConversionOf(i).display # nodes[i].baseTime
          /\ TextOf(nodes[i].children)
               = <<"n", NBSP>> \o ConversionOf(i).display
    /\ \E i \in 1..Len(nodes) :
          /\ ~nodes[i].hasPrefix
          /\ ConversionOf(i).display # nodes[i].baseTime
          /\ TextOf(nodes[i].children) = ConversionOf(i).display

\* C9: after any sequence of selections, every time-bearing node carries
\* exactly one badge when the dayOffset of its conversion to the selected
\* zone is not zero, "+1" for dayOffset > 0 and "-1" for dayOffset < 0
\* whatever the magnitude, and no badge otherwise: a badge is never left
\* from an earlier selection, and never shown without a dayOffset of its
\* sign.
C9_OneBadgeBySign ==
    \A i \in 1..Len(nodes) :
        BadgesOf(nodes[i].children)
          = (IF ConversionOf(i).threw \/ ~IsNum(ConversionOf(i).dayOffset)
             THEN <<>>
             ELSE IF ConversionOf(i).dayOffset.n > 0 THEN <<"+1">>
             ELSE IF ConversionOf(i).dayOffset.n < 0 THEN <<"-1">>
             ELSE <<>>)

\* C10: selecting the zone that the previous selection selected leaves the
\* text and the badge of every time-bearing node, and the selected zone, as
\* the previous selection left them.
C10_ReselectIdempotent ==
    [][lastSelect'.repeated =>
          /\ currentTimezone' = currentTimezone
          /\ Len(nodes') = Len(nodes)
          /\ \A i \in 1..Len(nodes) : Content(nodes'[i]) = Content(nodes[i])]_vars

\* C10 witness: the same zone selected twice in a row, with badges shown.
C10_Witness ==
    /\ lastSelect.repeated
    /\ ~lastSelect.threw
    /\ currentTimezone # BaseZone(currentConfig)
    /\ \E i \in 1..Len(nodes) : BadgesOf(nodes[i].children) # <<>>

-----------------------------------------------------------------------------
(* Properties of the offset cache                                          *)

\* A step of ResolveOffset: one more call of getOffsetMinutes was made.
ResolveStep == resolved'.calls # resolved.calls

\* C11: memoization.  formatToParts is called at most once for a zone
\* identifier, and exactly once for an identifier that has a cache entry; a
\* call of getOffsetMinutes for an identifier that has an entry returns the
\* entry without calling formatToParts; an entry, once written (a 0
\* included), is never changed or removed.
C11_Memoized ==
    /\ [](\A z \in ZoneIds :
             /\ formatCalls[z] <= 1
             /\ z \in DOMAIN tzOffsetCache => formatCalls[z] = 1)
    /\ [][/\ \A z \in DOMAIN tzOffsetCache :
               /\ z \in DOMAIN tzOffsetCache'
               /\ tzOffsetCache'[z] = tzOffsetCache[z]
          /\ (ResolveStep /\ resolved'.tz \in DOMAIN tzOffsetCache) =>
               /\ ~resolved'.threw
               /\ resolved'.value = JsNum(tzOffsetCache[resolved'.tz])
               /\ formatCalls' = formatCalls]_vars

\* C11 witness: getOffsetMinutes("UTC") was called twice and convertTime
\* once; the entry is 0, the second call returned 0, formatToParts ran once.
C11_Witness ==
    /\ input.fromTz = "UTC"
    /\ input.toTz = "UTC"
    /\ resolved.calls >= 2
    /\ pc = "converted"
    /\ resolved.value = JsNum(0)
    /\ tzOffsetCache["UTC"] = 0
    /\ formatCalls["UTC"] = 1

\* A call convertTime(t, A, B) that resolves offsets was made.
ConvertResolved ==
    /\ pc # "start"
    /\ TimePattern(input.timeStr)
    /\ input.fromTz # input.toTz

\* C12: for an identifier that is not a zone of the host, every call of
\* getOffsetMinutes ends with an error, returns no value and writes no cache
\* entry; a convertTime that resolves such an identifier ends with the
\* error and produces no result.
C12_InvalidZoneFails ==
    /\ (resolved.calls > 0 /\ resolved.tz \notin ValidZones) =>
          /\ resolved.threw
          /\ resolved.value = JsUndefined
    /\ (ConvertResolved /\ {input.fromTz, input.toTz} \ ValidZones # {}) =>
          /\ r1.threw
          /\ r1.display = <<>>
          /\ r1.dayOffset = JsUndefined
    /\ \A z \in DOMAIN tzOffsetCache : z \in ValidZones

\* What element i contains when it shows the conversion of its base time to
\* the selected zone.
ShownForSelected(i) ==
    Content(RewriteNode(nodes[i], ConversionOf(i).display,
                        ConversionOf(i).dayOffset))

\* C13: in every state between two events, every time-bearing node shows
\* the conversion of its base time to the currently selected zone.
C13_AllNodesShowSelectedZone ==
    \A i \in 1..Len(nodes) :
        /\ ~ConversionOf(i).threw
        /\ Content(nodes[i]) = ShownForSelected(i)

\* What element i contains when it shows its raw base time: the prefix, the
\* base time, no badge.
RawContent(i) ==
    [text |-> (IF nodes[i].hasPrefix THEN nodes[i].notePrefix ELSE <<>>)
              \o nodes[i].baseTime,
     badges |-> <<>>]

\* C14: before any selection the selected zone is config.baseTimezone, or
\* "Asia/Taipei" when that is absent, and every time-bearing node shows its
\* prefix and raw base time without a badge, which is what a propagation
\* pass to the base zone writes; and after a selection of the base zone,
\* whatever was selected before, every node has its initial content.
C14_BaseZoneRestoresInitial ==
    LET base == IF currentConfig.baseTimezone = "" THEN "Asia/Taipei"
                ELSE currentConfig.baseTimezone
        rendered == RenderedNodes(currentConfig)
        pass == updateAllTimes(rendered, currentConfig, base, EmptyCache,
                               hour24)
    IN  /\ Len(nodes) = Len(rendered)
        /\ lastSelect.tz = "" =>
              /\ currentTimezone = base
              /\ ~pass.threw
              /\ \A i \in 1..Len(nodes) :
                    /\ Content(nodes[i]) = RawContent(i)
                    /\ Content(nodes[i]) = Content(pass.nodes[i])
        /\ lastSelect.tz = base =>
              /\ currentTimezone = base
              /\ \A i \in 1..Len(nodes) :
                    Content(nodes[i]) = Content(rendered[i])

\* C14 witness: the base zone was selected after selections of other zones
\* had converted the times, and a compound node is back at its first text.
C14_Witness ==
    /\ lastSelect.tz = BaseZone(currentConfig)
    /\ ~lastSelect.repeated
    /\ DOMAIN tzOffsetCache # {}
    /\ \E i \in 1..Len(nodes) :
          /\ nodes[i].hasPrefix
          /\ TimePattern(nodes[i].baseTime)
          /\ Content(nodes[i]) = RawContent(i)

\* A step that leaves the time displays, the selected zone and the cache
\* as they are.
DisplaysUnchanged ==
    /\ Len(nodes') = Len(nodes)
    /\ \A i \in 1..Len(nodes) : Content(nodes'[i]) = Content(nodes[i])
    /\ nodes' = nodes
    /\ currentTimezone' = currentTimezone
    /\ tzOffsetCache' = tzOffsetCache

\* C15: a click on the selector's button, a click outside the selector and
\* the Escape key leave the content of every time-bearing node, the
\* selected zone and the offset cache unchanged; a step that changes one of
\* them is the click on an option, which runs the propagation.
C15_DropdownEventsFrame ==
    [][/\ (ToggleDropdown \/ OutsideClick \/ EscapeKey) => DisplaysUnchanged
       /\ ~DisplaysUnchanged =>
             \E i \in 1..Len(currentConfig.timezones) : SelectZone(i)]_vars

\* C15 witness: the dropdown was opened by the button after a completed
\* pass to another zone, and the badges of that pass are still shown.
C15_Witness ==
    /\ open
    /\ PassCompleted
    /\ currentTimezone # BaseZone(currentConfig)
    /\ DOMAIN tzOffsetCache # {}
    /\ \E i \in 1..Len(nodes) :
          /\ BadgesOf(nodes[i].children) # <<>>
          /\ Content(nodes[i]) = ShownForSelected(i)

\* What the time-bearing nodes contain after one propagation pass to the
\* selected zone over the freshly rendered poster: a function of the
\* configuration and the selected zone alone.
FreshPass ==
    updateAllTimes(RenderedNodes(currentConfig), currentConfig,
                   currentTimezone, EmptyCache, hour24)

\* C16: no selection changes a node's stored base time or prefix, and after
\* any sequence of selections the content of every node is what the
\* configuration and the last selected zone alone determine, whatever was
\* selected before.
C16_ContentFromConfigAndLastZone ==
    /\ Len(nodes) = Len(RenderedNodes(currentConfig))
    /\ \A i \in 1..Len(nodes) :
          /\ nodes[i].baseTime = RenderedNodes(currentConfig)[i].baseTime
          /\ nodes[i].hasPrefix = RenderedNodes(currentConfig)[i].hasPrefix
          /\ nodes[i].notePrefix = RenderedNodes(currentConfig)[i].notePrefix
          /\ Content(nodes[i]) = Content(FreshPass.nodes[i])

\* The range of the offsets: 12 * 60 minus a minute of the day.
OffsetRange == (12 * 60 - (23 * 60 + 59))..(12 * 60)

\* C17: every offset that getOffsetMinutes returns or caches for a zone of
\* the host lies in -719..720, and for a time with hour <= 23 and minute
\* <= 59 and any two zones the dayOffset of convertTime is -1, 0 or 1: a
\* larger magnitude needs an hour >= 24 or a minute >= 60.
C17_OffsetAndDayOffsetRange ==
    /\ (resolved.calls > 0 /\ resolved.tz \in ValidZones) =>
          /\ ~resolved.threw
          /\ IsNum(resolved.value)
          /\ resolved.value.n \in OffsetRange
    /\ \A z \in DOMAIN tzOffsetCache : tzOffsetCache[z] \in OffsetRange
    /\ (/\ pc # "start"
        /\ TimePattern(input.timeStr)
        /\ {input.fromTz, input.toTz} \subseteq ValidZones) =>
          /\ ~r1.threw
          /\ IsNum(r1.dayOffset)
          /\ WallClock(input.timeStr) => r1.dayOffset.n \in {-1, 0, 1}
          /\ r1.dayOffset.n \notin {-1, 0, 1} =>
                HourOf(input.timeStr) >= 24 \/ MinuteOf(input.timeStr) >= 60

\* C17 witness: the host reports the local midnight as hour 24, the offset
\* returned is the bound 720, and the last minute of the day converted
\* from that zone rolls over by one day.
C17_Witness ==
    /\ hour24
    /\ resolved.calls > 0
    /\ resolved.tz = input.fromTz
    /\ resolved.value = JsNum(720)
    /\ pc = "converted"
    /\ input.timeStr = <<"2", "3", ":", "5", "9">>
    /\ input.toTz \in ValidZones
    /\ r1.dayOffset = JsNum(1)

\* A step of Convert: the call convertTime(t, A, B) of the harness.
ConvertStep == pc = "start" /\ pc' = "converted"

\* C18: a convertTime with fromTz equal to toTz, or with a time that does
\* not match the pattern, resolves no offset: it leaves the cache as it is,
\* calls no formatToParts and ends without an error, also for invalid
\* identifiers.  Otherwise the offset of fromTz is resolved before that of
\* toTz: an error for fromTz leaves the cache as it is, and an error for an
\* invalid toTz leaves at most the entry of fromTz newly written.
C18_PassThroughAndOrder ==
    [][ConvertStep =>
         /\ (input.fromTz = input.toTz \/ ~TimePattern(input.timeStr)) =>
               /\ ~r1'.threw
               /\ r1'.display = input.timeStr
               /\ tzOffsetCache' = tzOffsetCache
               /\ formatCalls' = formatCalls
         /\ (/\ input.fromTz # input.toTz
             /\ TimePattern(input.timeStr)
             /\ r1'.threw) =>
               IF input.fromTz \in ValidZones
               THEN /\ input.toTz \notin ValidZones
                    /\ DOMAIN tzOffsetCache'
                         = DOMAIN tzOffsetCache \cup {input.fromTz}
               ELSE tzOffsetCache' = tzOffsetCache]_vars

\* C18 witness: with an empty cache, a conversion from a zone of the host
\* to a rejected identifier ended with the error and left the entry of the
\* source zone, written by one call of formatToParts.
C18_Witness ==
    /\ pc = "converted"
    /\ resolved.calls = 0
    /\ r1.threw
    /\ input.fromTz \in ValidZones
    /\ input.toTz = "Mars/Phobos"
    /\ DOMAIN tzOffsetCache = {input.fromTz}
    /\ formatCalls[input.fromTz] = 1

====
